---- MODULE Spec2Model ----
(***************************************************************************)
(* A model of the ptrace debugger of this repository: the breakpoint      *)
(* object (breakpoint.rs), the tracee controller (tracee.rs), the line    *)
(* lookups (dwarf.rs) and the REPL with its stepping planner              *)
(* (debugger.rs), run against a small x86-64 tracee.                      *)
(*                                                                         *)
(* The debugger is single threaded and blocks in waitpid; the tracee runs *)
(* only while the debugger is blocked.  A debugger action therefore runs  *)
(* the code from one return of waitpid (or from the prompt) to the next   *)
(* call of waitpid (or back to the prompt); between the two the tracee    *)
(* executes one instruction per TraceeExec step.                          *)
(***************************************************************************)
EXTENDS Integers, Sequences, FiniteSets, TLC

VARIABLES
    start_load_addr,  \* Tracee.start_load_addr
    mem,              \* the tracee's memory, byte per address
    regs,             \* the tracee's register bank (user_regs_struct)
    tstate,           \* the tracee as the kernel sees it
    siginfo,          \* what PTRACE_GETSIGINFO returns for the last stop
    breakpoints,      \* Debugger.breakpoints: address -> Breakpoint
    pc,               \* where the debugger is (prompt, or blocked in a waitpid)
    cmd,              \* the REPL command being run (or the last one run)
    sob_addr,         \* step_over_breakpoint: the key of the bp stepped over
    start_line_entry, \* step_in: the line entry recorded at its start
    addrs,            \* step_over / step_out: the (addr, later action) pairs
    result,           \* what Debugger::run returned ("none" while it runs)
    pre_bps,          \* history: the registry when step_over / step_out began
    hit,              \* history: address of the INT3 that caused the last stop
    prev_hit,         \* history: hit of the stop before the last one
    ran,              \* history: address of the last instruction executed
    call,             \* a direct call of an operation: its input and its result
    prev_call         \* the direct call before it

vars == <<start_load_addr, mem, regs, tstate, siginfo, breakpoints, pc, cmd,
          sob_addr, start_line_entry, addrs, result, pre_bps, hit, prev_hit,
          ran, call, prev_call>>

(***************************************************************************)
(* Program constants.                                                      *)
(***************************************************************************)
INT3 == 204
TRAP_BRKPT == 1
TRAP_TRACE == 2
SI_KERNEL == 128

\* Option<T>: None is <<>>, Some(x) is <<x>>.
None == <<>>
Some(x) == <<x>>

\* The bytes of one word of ptrace PEEKDATA / POKEDATA, least significant first.
WordIdx == 0..7

(***************************************************************************)
(* The tracee: a position independent x86-64 program, one byte of address *)
(* space per instruction.  _start calls main and exits; main calls foo    *)
(* once or twice; bar only follows main in the compile unit.              *)
(***************************************************************************)
Prog == <<
    [op |-> "call",        byte |-> 232, arg |-> 7],   \*  0 _start
    [op |-> "syscall",     byte |-> 15,  arg |-> 1],   \*  1 exit
    [op |-> "push_rbp",    byte |-> 85,  arg |-> 0],   \*  2 foo
    [op |-> "mov_rbp_rsp", byte |-> 72,  arg |-> 0],   \*  3
    [op |-> "nop",         byte |-> 144, arg |-> 0],   \*  4
    [op |-> "pop_rbp",     byte |-> 93,  arg |-> 0],   \*  5
    [op |-> "ret",         byte |-> 195, arg |-> 0],   \*  6
    [op |-> "push_rbp",    byte |-> 85,  arg |-> 0],   \*  7 main
    [op |-> "mov_rbp_rsp", byte |-> 72,  arg |-> 0],   \*  8
    [op |-> "call",        byte |-> 232, arg |-> 2],   \*  9 foo()
    [op |-> "jcc",         byte |-> 117, arg |-> 12],  \* 10
    [op |-> "call",        byte |-> 232, arg |-> 2],   \* 11 foo()
    [op |-> "syscall",     byte |-> 15,  arg |-> 0],   \* 12 may be exit
    [op |-> "pop_rbp",     byte |-> 93,  arg |-> 0],   \* 13
    [op |-> "ret",         byte |-> 195, arg |-> 0],   \* 14
    [op |-> "nop",         byte |-> 144, arg |-> 0],   \* 15 bar
    [op |-> "ret",         byte |-> 195, arg |-> 0] >> \* 16

CodeLen == Len(Prog)

\* The load base of the first mapping: 0 for a non-PIE build of the tracee.
LoadBases == {0, 32}

\* The stack: rsp at the entry point, and the lowest mapped stack address.
StackTop == 96
StackLo == StackTop - 32

\* The mapped addresses: the text (and the rest of its page, zero filled) and the stack.
MemDomain(base) == (base .. (base + CodeLen + 6)) \cup (StackLo .. (StackTop + 7))

InitMem(base) ==
    [a \in MemDomain(base) |->
        IF a - base \in 0..(CodeLen - 1) THEN Prog[a - base + 1].byte ELSE 0]

\* A small value as a word, and a word as a value (a word too large for the
\* model's integers reads as an address that is mapped nowhere).
Unmapped == 4096
WordOf(v) == [i \in WordIdx |-> IF i = 0 THEN v % 256
                                 ELSE IF i = 1 THEN (v \div 256) % 256 ELSE 0]
ValOf(w) == IF \A i \in 2..7 : w[i] = 0 THEN w[0] + 256 * w[1] ELSE Unmapped

(***************************************************************************)
(* ptrace PEEKDATA / POKEDATA on a stopped tracee.                        *)
(***************************************************************************)
CanPeek(m, a) == \A i \in WordIdx : (a + i) \in DOMAIN m
PeekData(m, a) == [i \in WordIdx |-> m[a + i]]
PokeData(m, a, w) ==
    [x \in DOMAIN m |-> IF x - a \in WordIdx THEN w[x - a] ELSE m[x]]

(***************************************************************************)
(* breakpoint.rs                                                           *)
(***************************************************************************)
Breakpoint_new(inst_addr) ==
    [inst_addr |-> inst_addr, inst_data |-> None, enabled |-> FALSE]

\* A variant that keeps only the low byte: b as u64, the upper bytes zero.
WithLowByte_truncating(data, b) == [i \in WordIdx |-> IF i = 0 THEN b ELSE 0]

\* (data & !0xff) | b
WithLowByte(data, b) == [data EXCEPT ![0] = b]

\* Breakpoint::enable on a tracee that is alive (stopped) or not.
Enable(m, alive, bp) ==
    IF ~(alive /\ CanPeek(m, bp.inst_addr))
    THEN [res |-> "err", mem |-> m, bp |-> bp]
    ELSE LET data == PeekData(m, bp.inst_addr)
             data_with_int3 == WithLowByte(data, INT3)
         IN  [res |-> "ok",
              mem |-> PokeData(m, bp.inst_addr, data_with_int3),
              bp  |-> [bp EXCEPT !.inst_data = Some(data[0]), !.enabled = TRUE]]

\* A variant that marks the breakpoint disabled and leaves the INT3 in place.
Disable_no_restore(m, alive, bp) ==
    IF ~(alive /\ CanPeek(m, bp.inst_addr))
    THEN [res |-> "err", mem |-> m, bp |-> bp]
    ELSE IF bp.inst_data = None
    THEN [res |-> "panic", mem |-> m, bp |-> bp]
    ELSE [res |-> "ok", mem |-> m,
          bp |-> [bp EXCEPT !.inst_data = None, !.enabled = FALSE]]

\* Breakpoint::disable: the read fails first, then inst_data.unwrap() panics.
Disable(m, alive, bp) ==
    IF ~(alive /\ CanPeek(m, bp.inst_addr))
    THEN [res |-> "err", mem |-> m, bp |-> bp]
    ELSE IF bp.inst_data = None
    THEN [res |-> "panic", mem |-> m, bp |-> bp]
    ELSE LET data == PeekData(m, bp.inst_addr)
             orig_data == WithLowByte(data, bp.inst_data[1])
         IN  [res |-> "ok",
              mem |-> PokeData(m, bp.inst_addr, orig_data),
              bp  |-> [bp EXCEPT !.inst_data = None, !.enabled = FALSE]]

is_enabled(bp) == bp.enabled

(***************************************************************************)
(* dwarf.rs: the debug information of the tracee.  One compile unit       *)
(* covers foo, main and bar; _start has no debug information.             *)
(***************************************************************************)
CompileUnit == [low_pc |-> 2, high_pc |-> 15]

\* The DW_TAG_subprogram entries in depth-first order.
Subprograms == <<
    [name |-> "foo",  low_pc |-> 2,  high_pc |-> 5],
    [name |-> "main", low_pc |-> 7,  high_pc |-> 8],
    [name |-> "bar",  low_pc |-> 15, high_pc |-> 2] >>

\* The rows of the unit's line program, in address order.
LineRows == <<
    [address |-> 2,  line |-> 3,  col |-> 1],
    [address |-> 4,  line |-> 4,  col |-> 5],
    [address |-> 5,  line |-> 5,  col |-> 1],
    [address |-> 7,  line |-> 8,  col |-> 1],
    [address |-> 9,  line |-> 9,  col |-> 5],
    [address |-> 10, line |-> 10, col |-> 5],
    [address |-> 11, line |-> 11, col |-> 5],
    [address |-> 12, line |-> 12, col |-> 5],
    [address |-> 13, line |-> 13, col |-> 1],
    [address |-> 15, line |-> 16, col |-> 1] >>

\* get_die_addr_range: low_pc .. low_pc + high_pc, the end excluded.
get_die_addr_range(entry) ==
    [start |-> entry.low_pc, end |-> entry.low_pc + entry.high_pc]

RangeContains(range, x) == range.start <= x /\ x < range.end

\* get_compile_unit_for_pc: whether the (only) unit's range contains pc.
get_compile_unit_for_pc(file_pc) ==
    RangeContains(get_die_addr_range(CompileUnit), file_pc)

\* get_function_from_pc: the first subprogram whose range contains pc.
get_function_from_pc(file_pc) ==
    LET found == {i \in 1..Len(Subprograms) :
                    RangeContains(get_die_addr_range(Subprograms[i]), file_pc)}
    IN  IF get_compile_unit_for_pc(file_pc) /\ found # {}
        THEN Some(CHOOSE i \in found : \A j \in found : i <= j)
        ELSE None

\* The rows the loop of get_line_entry_from_pc visits: it stops at the first
\* row whose address is not below pc.
RowsVisited(file_pc) ==
    {i \in 1..Len(LineRows) : \A j \in 1..i : LineRows[j].address < file_pc}

\* get_line_entry_from_pc: the entry of the last row visited.
get_line_entry_from_pc(file_pc) ==
    LET seen == RowsVisited(file_pc)
    IN  IF get_compile_unit_for_pc(file_pc) /\ seen # {}
        THEN LET last == CHOOSE i \in seen : \A j \in seen : j <= i
             IN  Some([line |-> LineRows[last].line, col |-> LineRows[last].col])
        ELSE None

\* get_lines_for_unit: line number -> the lowest address of a row of that line.
LinesInUnit == {LineRows[i].line : i \in 1..Len(LineRows)}
get_lines_for_unit ==
    [l \in LinesInUnit |->
        LET at == {LineRows[i].address : i \in {j \in 1..Len(LineRows) : LineRows[j].line = l}}
        IN  CHOOSE a \in at : \A b \in at : a <= b]

(***************************************************************************)
(* The tracee's processor.  Exec gives the outcomes of executing the      *)
(* instruction at rip: the byte in memory decides (a patched INT3 traps;  *)
(* the original byte runs the instruction of Prog).                       *)
(***************************************************************************)
InText(base, a) == (a - base) \in 0..(CodeLen - 1)

Push(m, r, v) == [mem |-> PokeData(m, r.rsp - 8, WordOf(v)),
                  regs |-> [r EXCEPT !.rsp = r.rsp - 8]]

Exec(base, m, r) ==
    IF ~InText(base, r.rip) THEN {[ev |-> "segv", mem |-> m, regs |-> r]}
    ELSE LET ins  == Prog[r.rip - base + 1]
             next == [r EXCEPT !.rip = r.rip + 1]
         IN
         IF m[r.rip] = INT3 /\ ins.byte # INT3
            THEN {[ev |-> "int3", mem |-> m, regs |-> next]}
         ELSE IF m[r.rip] # ins.byte
            THEN {[ev |-> "ill", mem |-> m, regs |-> r]}
         ELSE IF ins.op = "nop"
            THEN {[ev |-> "ok", mem |-> m, regs |-> next]}
         ELSE IF ins.op = "mov_rbp_rsp"
            THEN {[ev |-> "ok", mem |-> m, regs |-> [next EXCEPT !.rbp = r.rsp]]}
         ELSE IF ins.op = "jcc"
            THEN {[ev |-> "ok", mem |-> m, regs |-> next],
                  [ev |-> "ok", mem |-> m, regs |-> [r EXCEPT !.rip = base + ins.arg]]}
         ELSE IF ins.op = "syscall"
            THEN {[ev |-> "exit", mem |-> m, regs |-> r]}
                 \cup (IF ins.arg = 1 THEN {} ELSE {[ev |-> "ok", mem |-> m, regs |-> next]})
         ELSE IF ins.op \in {"call", "push_rbp"}
            THEN IF ~CanPeek(m, r.rsp - 8)
                 THEN {[ev |-> "segv", mem |-> m, regs |-> r]}
                 ELSE IF ins.op = "call"
                 THEN LET p == Push(m, r, r.rip + 1)
                      IN  {[ev |-> "ok", mem |-> p.mem,
                            regs |-> [p.regs EXCEPT !.rip = base + ins.arg]]}
                 ELSE LET p == Push(m, r, r.rbp)
                      IN  {[ev |-> "ok", mem |-> p.mem,
                            regs |-> [p.regs EXCEPT !.rip = r.rip + 1]]}
         ELSE \* pop_rbp, ret
              IF ~CanPeek(m, r.rsp)
                 THEN {[ev |-> "segv", mem |-> m, regs |-> r]}
                 ELSE LET v == ValOf(PeekData(m, r.rsp))
                      IN  IF ins.op = "pop_rbp"
                          THEN {[ev |-> "ok", mem |-> m,
                                 regs |-> [next EXCEPT !.rbp = v, !.rsp = r.rsp + 8]]}
                          ELSE {[ev |-> "ok", mem |-> m,
                                 regs |-> [r EXCEPT !.rip = v, !.rsp = r.rsp + 8]]}

\* How the kernel reports an event of a tracee resumed by PTRACE_CONT
\* ("running") or PTRACE_SINGLESTEP ("stepping"): the states and siginfos.
Reports(ev, how, si) ==
    IF ev = "exit" THEN {[tstate |-> "exited", siginfo |-> si]}
    ELSE IF ev = "int3"
        THEN {[tstate |-> "trapped", siginfo |-> [si_signo |-> "SIGTRAP", si_code |-> c]] :
                c \in {TRAP_BRKPT, SI_KERNEL}}
    ELSE IF ev = "segv"
        THEN {[tstate |-> "trapped", siginfo |-> [si_signo |-> "SIGSEGV", si_code |-> 1]]}
    ELSE IF ev = "ill"
        THEN {[tstate |-> "trapped", siginfo |-> [si_signo |-> "SIGILL", si_code |-> 1]]}
    ELSE IF how = "stepping"
        THEN {[tstate |-> "trapped", siginfo |-> [si_signo |-> "SIGTRAP", si_code |-> TRAP_TRACE]]}
    ELSE {[tstate |-> how, siginfo |-> si]}

(***************************************************************************)
(* The debugger's code works on k: the tracee (mem, regs, tstate) and the *)
(* debugger's own state (bps: the registry, pc, the locals, result).      *)
(***************************************************************************)
Cur == [mem |-> mem, regs |-> regs, tstate |-> tstate, bps |-> breakpoints,
        pc |-> pc, sob_addr |-> sob_addr, sle |-> start_line_entry,
        addrs |-> addrs, result |-> result]

\* The same at the prompt, where a command starts with no locals.
AtPrompt == [Cur EXCEPT !.sle = None]

\* Every ptrace request fails with ESRCH unless the tracee is in a ptrace stop.
Alive(k) == k.tstate = "stopped"

\* Debugger::run returns an error (a `?`), panics (an unwrap), returns Ok(()),
\* or goes round its loop to the next prompt.
Fail(k) == [k EXCEPT !.pc = "done", !.result = "err"]
Panicked(k) == [k EXCEPT !.pc = "done", !.result = "panic"]
Finished(k) == [k EXCEPT !.pc = "done", !.result = "ok"]
\* (the locals of the command that returns are gone)
Prompt(k) == [k EXCEPT !.pc = "prompt", !.sob_addr = 0, !.addrs = <<>>]
Stopped(k, res) == IF res = "panic" THEN Panicked(k) ELSE Fail(k)

\* HashMap::insert and HashMap::remove.
Insert(b, a, v) == [x \in (DOMAIN b) \cup {a} |-> IF x = a THEN v ELSE b[x]]
Remove(b, a) == [x \in (DOMAIN b) \ {a} |-> b[x]]

(***************************************************************************)
(* registers.rs and tracee.rs                                              *)
(***************************************************************************)
\* The register bank of the tracee at its first stop (after execve).
InitRegs(base) ==
    [rax |-> 0, rbx |-> 0, rcx |-> 0, rdx |-> 0, rdi |-> 0, rsi |-> 0,
     rbp |-> 0, rsp |-> StackTop, r8 |-> 0, r9 |-> 0, r10 |-> 0, r11 |-> 0,
     r12 |-> 0, r13 |-> 0, r14 |-> 0, r15 |-> 0, rip |-> base,
     eflags |-> 512, cs |-> 51, orig_rax |-> 59, fs_base |-> 0,
     gs_base |-> 0, fs |-> 0, gs |-> 0, ss |-> 43, ds |-> 0, es |-> 0]

\* enum Register, in declaration order.
Registers ==
    <<"Rax", "Rbx", "Rcx", "Rdx", "Rdi", "Rsi", "Rbp", "Rsp",
      "R8", "R9", "R10", "R11", "R12", "R13", "R14", "R15",
      "Rip", "Rflags", "Cs", "OrigRax", "FsBase", "GsBase",
      "Fs", "Gs", "Ss", "Ds", "Es">>

Register == {Registers[i] : i \in DOMAIN Registers}

\* get_reg: the field of user_regs_struct a Register names.
get_reg(reg) ==
    CASE reg = "Rax" -> "rax" [] reg = "Rbx" -> "rbx"
      [] reg = "Rcx" -> "rcx" [] reg = "Rdx" -> "rdx"
      [] reg = "Rdi" -> "rdi" [] reg = "Rsi" -> "rsi"
      [] reg = "Rbp" -> "rbp" [] reg = "Rsp" -> "rsp"
      [] reg = "R8" -> "r8" [] reg = "R9" -> "r9"
      [] reg = "R10" -> "r10" [] reg = "R11" -> "r11"
      [] reg = "R12" -> "r12" [] reg = "R13" -> "r13"
      [] reg = "R14" -> "r14" [] reg = "R15" -> "r15"
      [] reg = "Rip" -> "rip" [] reg = "Rflags" -> "eflags"
      [] reg = "Cs" -> "cs" [] reg = "OrigRax" -> "orig_rax"
      [] reg = "FsBase" -> "fs_base" [] reg = "GsBase" -> "gs_base"
      [] reg = "Fs" -> "fs" [] reg = "Gs" -> "gs"
      [] reg = "Ss" -> "ss" [] reg = "Ds" -> "ds"
      [] reg = "Es" -> "es"

\* A variant of the second table in which two arms are swapped.
get_mutable_reg_swapped(reg) ==
    IF reg = "Fs" THEN "gs" ELSE IF reg = "Gs" THEN "fs" ELSE get_reg(reg)

\* get_mutable_reg: the same table, written out a second time in the source.
get_mutable_reg(reg) ==
    CASE reg = "Rax" -> "rax" [] reg = "Rbx" -> "rbx"
      [] reg = "Rcx" -> "rcx" [] reg = "Rdx" -> "rdx"
      [] reg = "Rdi" -> "rdi" [] reg = "Rsi" -> "rsi"
      [] reg = "Rbp" -> "rbp" [] reg = "Rsp" -> "rsp"
      [] reg = "R8" -> "r8" [] reg = "R9" -> "r9"
      [] reg = "R10" -> "r10" [] reg = "R11" -> "r11"
      [] reg = "R12" -> "r12" [] reg = "R13" -> "r13"
      [] reg = "R14" -> "r14" [] reg = "R15" -> "r15"
      [] reg = "Rip" -> "rip" [] reg = "Rflags" -> "eflags"
      [] reg = "Cs" -> "cs" [] reg = "OrigRax" -> "orig_rax"
      [] reg = "FsBase" -> "fs_base" [] reg = "GsBase" -> "gs_base"
      [] reg = "Fs" -> "fs" [] reg = "Gs" -> "gs"
      [] reg = "Ss" -> "ss" [] reg = "Ds" -> "ds"
      [] reg = "Es" -> "es"

\* get_reg_value and set_reg_value on the bank PTRACE_GETREGS returns.
get_reg_value(r, reg) == r[get_reg(reg)]
set_reg_value(r, reg, value) == [r EXCEPT ![get_mutable_reg(reg)] = value]

\* get_reg_from_string, after to_ascii_lowercase.
get_reg_from_string(s) ==
    CASE s = "rax" -> Some("Rax") [] s = "rbx" -> Some("Rbx")
      [] s = "rcx" -> Some("Rcx") [] s = "rdx" -> Some("Rdx")
      [] s = "rdi" -> Some("Rdi") [] s = "rsi" -> Some("Rsi")
      [] s = "rbp" -> Some("Rbp") [] s = "rsp" -> Some("Rsp")
      [] s = "r8" -> Some("R8") [] s = "r9" -> Some("R9")
      [] s = "r10" -> Some("R10") [] s = "r11" -> Some("R11")
      [] s = "r12" -> Some("R12") [] s = "r13" -> Some("R13")
      [] s = "r14" -> Some("R14") [] s = "r15" -> Some("R15")
      [] s = "rip" -> Some("Rip") [] s = "rflags" -> Some("Rflags")
      [] s = "cs" -> Some("Cs") [] s = "orig_rax" -> Some("OrigRax")
      [] s = "fs_base" -> Some("FsBase") [] s = "gs_base" -> Some("GsBase")
      [] s = "fs" -> Some("Fs") [] s = "gs" -> Some("Gs")
      [] s = "ss" -> Some("Ss") [] s = "ds" -> Some("Ds")
      [] s = "es" -> Some("Es")
      [] OTHER -> None

\* get_dwarf_number_from_reg: Option<u8>.
get_dwarf_number_from_reg(reg) ==
    CASE reg = "Rax" -> Some(0) [] reg = "Rbx" -> Some(3)
      [] reg = "Rcx" -> Some(2) [] reg = "Rdx" -> Some(1)
      [] reg = "Rdi" -> Some(5) [] reg = "Rsi" -> Some(4)
      [] reg = "Rbp" -> Some(6) [] reg = "Rsp" -> Some(7)
      [] reg = "R8" -> Some(8) [] reg = "R9" -> Some(9)
      [] reg = "R10" -> Some(10) [] reg = "R11" -> Some(11)
      [] reg = "R12" -> Some(12) [] reg = "R13" -> Some(13)
      [] reg = "R14" -> Some(14) [] reg = "R15" -> Some(15)
      [] reg = "Rflags" -> Some(49) [] reg = "Cs" -> Some(51)
      [] reg = "FsBase" -> Some(58) [] reg = "GsBase" -> Some(59)
      [] reg = "Fs" -> Some(54) [] reg = "Gs" -> Some(55)
      [] reg = "Ss" -> Some(52) [] reg = "Ds" -> Some(53)
      [] reg = "Es" -> Some(50)
      [] reg \in {"Rip", "OrigRax"} -> None

\* A variant with arms for the two numbers the source keeps in comments,
\* 255 for Rip and 244 for OrigRax.
get_reg_from_dwarf_number_with_rip(dwarf) ==
    IF dwarf = 255 THEN Some("Rip")
    ELSE IF dwarf = 244 THEN Some("OrigRax")
    ELSE IF \E r \in Register : get_dwarf_number_from_reg(r) = Some(dwarf)
    THEN Some(CHOOSE r \in Register : get_dwarf_number_from_reg(r) = Some(dwarf))
    ELSE None

\* get_reg_from_dwarf_number: Some(register), or None for its Err.
get_reg_from_dwarf_number(dwarf) ==
    CASE dwarf = 0 -> Some("Rax") [] dwarf = 3 -> Some("Rbx")
      [] dwarf = 2 -> Some("Rcx") [] dwarf = 1 -> Some("Rdx")
      [] dwarf = 5 -> Some("Rdi") [] dwarf = 4 -> Some("Rsi")
      [] dwarf = 6 -> Some("Rbp") [] dwarf = 7 -> Some("Rsp")
      [] dwarf = 8 -> Some("R8") [] dwarf = 9 -> Some("R9")
      [] dwarf = 10 -> Some("R10") [] dwarf = 11 -> Some("R11")
      [] dwarf = 12 -> Some("R12") [] dwarf = 13 -> Some("R13")
      [] dwarf = 14 -> Some("R14") [] dwarf = 15 -> Some("R15")
      [] dwarf = 49 -> Some("Rflags") [] dwarf = 51 -> Some("Cs")
      [] dwarf = 58 -> Some("FsBase") [] dwarf = 59 -> Some("GsBase")
      [] dwarf = 54 -> Some("Fs") [] dwarf = 55 -> Some("Gs")
      [] dwarf = 52 -> Some("Ss") [] dwarf = 53 -> Some("Ds")
      [] dwarf = 50 -> Some("Es")
      [] OTHER -> None

add_load_addr(addr) == addr + start_load_addr

\* A variant that does not subtract the load base.
offset_load_addr_identity(addr) == addr

offset_load_addr(addr) == addr - start_load_addr

\* A variant that leaves rip where the trap left it, one past the INT3.
handle_sigtrap_no_rewind(k, si) == k

\* A variant that rewinds rip whatever the code of the trap.
handle_sigtrap_any_code(k, si) ==
    LET rip == get_reg_value(k.regs, "Rip") - 1
    IN  [k EXCEPT !.regs = set_reg_value(k.regs, "Rip", rip)]

handle_sigtrap(k, si) ==
    IF si.si_code \in {SI_KERNEL, TRAP_BRKPT}
    THEN LET rip == get_reg_value(k.regs, "Rip") - 1
         IN  [k EXCEPT !.regs = set_reg_value(k.regs, "Rip", rip)]
    ELSE k

\* wait_for_signal returns once the tracee has stopped or is gone: "true",
\* "false", or "err" (PTRACE_GETSIGINFO on a tracee that a signal killed).
wait_for_signal(k, si) ==
    IF k.tstate = "exited"
    THEN [ret |-> "true", k |-> [k EXCEPT !.tstate = "gone"]]
    ELSE IF k.tstate = "signaled"
    THEN [ret |-> "err", k |-> [k EXCEPT !.tstate = "killed"]]
    ELSE LET k1 == [k EXCEPT !.tstate = "stopped"]
         IN  [ret |-> "false",
              k |-> IF si.si_signo = "SIGTRAP" THEN handle_sigtrap(k1, si) ELSE k1]

\* single_step_instr up to its waitpid: PTRACE_SINGLESTEP.
single_step_instr(k) ==
    IF Alive(k) THEN [k EXCEPT !.tstate = "stepping", !.pc = "ss_wait"] ELSE Fail(k)

get_line_entry(k) ==
    get_line_entry_from_pc(offset_load_addr(get_reg_value(k.regs, "Rip")))

get_func(k) ==
    get_function_from_pc(offset_load_addr(get_reg_value(k.regs, "Rip")))

(***************************************************************************)
(* debugger.rs: the breakpoint registry                                    *)
(***************************************************************************)
\* A variant that puts the record into the registry before arming it.
set_breakpoint_at_insert_first(k, addr) ==
    LET e == Enable(k.mem, Alive(k), Breakpoint_new(addr))
    IN  [res |-> e.res,
         k |-> [k EXCEPT !.mem = e.mem, !.bps = Insert(k.bps, addr, e.bp)]]

set_breakpoint_at(k, addr) ==
    LET e == Enable(k.mem, Alive(k), Breakpoint_new(addr))
    IN  IF e.res # "ok" THEN [res |-> e.res, k |-> k]
        ELSE [res |-> "ok",
              k |-> [k EXCEPT !.mem = e.mem, !.bps = Insert(k.bps, addr, e.bp)]]

\* A variant that does not look the address up in the registry first.
set_temp_breakpoint_at_unchecked(k, addr) ==
    LET s == set_breakpoint_at(k, addr)
    IN  [res |-> s.res, la |-> "Delete", k |-> s.k]

\* A variant that answers Delete for an entry that is already armed.
set_temp_breakpoint_at_delete_armed(k, addr) ==
    IF addr \in DOMAIN k.bps
    THEN IF is_enabled(k.bps[addr])
         THEN [res |-> "ok", la |-> "Delete", k |-> k]
         ELSE LET e == Enable(k.mem, Alive(k), k.bps[addr])
              IN  IF e.res # "ok" THEN [res |-> e.res, la |-> "Disable", k |-> k]
                  ELSE [res |-> "ok", la |-> "Disable",
                        k |-> [k EXCEPT !.mem = e.mem, !.bps[addr] = e.bp]]
    ELSE LET s == set_breakpoint_at(k, addr)
         IN  [res |-> s.res, la |-> "Delete", k |-> s.k]

set_temp_breakpoint_at(k, addr) ==
    IF addr \in DOMAIN k.bps
    THEN IF is_enabled(k.bps[addr])
         THEN [res |-> "ok", la |-> "Nothing", k |-> k]
         ELSE LET e == Enable(k.mem, Alive(k), k.bps[addr])
              IN  IF e.res # "ok" THEN [res |-> e.res, la |-> "Disable", k |-> k]
                  ELSE [res |-> "ok", la |-> "Disable",
                        k |-> [k EXCEPT !.mem = e.mem, !.bps[addr] = e.bp]]
    ELSE LET s == set_breakpoint_at(k, addr)
         IN  [res |-> s.res, la |-> "Delete", k |-> s.k]

\* A variant whose Delete disables the entry and leaves it in the registry.
reverse_breakpoint_keep(k, key, action) ==
    IF action = "Nothing" THEN [res |-> "ok", k |-> k]
    ELSE IF key \notin DOMAIN k.bps THEN [res |-> "panic", k |-> k]
    ELSE LET d == IF action = "Enable" THEN Enable(k.mem, Alive(k), k.bps[key])
                                       ELSE Disable(k.mem, Alive(k), k.bps[key])
         IN  [res |-> d.res, k |-> [k EXCEPT !.mem = d.mem, !.bps[key] = d.bp]]

reverse_breakpoint(k, key, action) ==
    IF action = "Nothing" THEN [res |-> "ok", k |-> k]
    ELSE IF key \notin DOMAIN k.bps THEN [res |-> "panic", k |-> k]
    ELSE IF action = "Delete"
    THEN LET d == Disable(k.mem, Alive(k), k.bps[key])
         IN  [res |-> d.res, k |-> [k EXCEPT !.mem = d.mem, !.bps = Remove(k.bps, key)]]
    ELSE LET d == IF action = "Disable" THEN Disable(k.mem, Alive(k), k.bps[key])
                                        ELSE Enable(k.mem, Alive(k), k.bps[key])
         IN  [res |-> d.res, k |-> [k EXCEPT !.mem = d.mem, !.bps[key] = d.bp]]

\* The loop over addrs at the end of step_over (and the one call of step_out).
RECURSIVE reverse_all(_, _)
reverse_all(k, as) ==
    IF as = <<>> THEN Prompt(k)
    ELSE LET r == reverse_breakpoint(k, as[1][1], as[1][2])
         IN  IF r.res = "ok" THEN reverse_all(r.k, Tail(as)) ELSE Stopped(r.k, r.res)

(***************************************************************************)
(* debugger.rs: resuming the tracee                                        *)
(***************************************************************************)
\* step_over_breakpoint up to the waitpid of its single step: "blocked" there,
\* or returned "false", or failed.
step_over_breakpoint(k) ==
    IF ~Alive(k) THEN [ret |-> "err", k |-> k]
    ELSE LET rip == get_reg_value(k.regs, "Rip")
         IN  IF rip \in DOMAIN k.bps /\ is_enabled(k.bps[rip])
             THEN LET d == Disable(k.mem, Alive(k), k.bps[rip])
                  IN  IF d.res # "ok" THEN [ret |-> d.res, k |-> k]
                      ELSE [ret |-> "blocked",
                            k |-> [k EXCEPT !.mem = d.mem, !.bps[rip] = d.bp,
                                            !.tstate = "stepping",
                                            !.pc = "sob_wait", !.sob_addr = rip]]
             ELSE [ret |-> "false", k |-> k]

\* step_over_breakpoint from the return of that waitpid: the result of
\* wait_for_signal is dropped unless it is an error; bp.enable()?; Ok(true).
step_over_breakpoint_resume(k, si) ==
    LET w == wait_for_signal(k, si)
    IN  IF w.ret = "err" THEN [ret |-> "err", k |-> w.k]
        ELSE LET e == Enable(w.k.mem, Alive(w.k), w.k.bps[k.sob_addr])
             IN  IF e.res # "ok" THEN [ret |-> e.res, k |-> w.k]
                 ELSE [ret |-> "true",
                       k |-> [w.k EXCEPT !.mem = e.mem, !.bps[k.sob_addr] = e.bp]]

\* ptrace::cont, then blocked in the wait_for_signal of continue_execution.
ptrace_cont(k) ==
    IF Alive(k) THEN [k EXCEPT !.tstate = "running", !.pc = "cont_wait"] ELSE Fail(k)

continue_execution(k) ==
    LET s == step_over_breakpoint(k)
    IN  IF s.ret = "blocked" THEN s.k
        ELSE IF s.ret = "false" THEN ptrace_cont(s.k)
        ELSE Stopped(s.k, s.ret)

single_step_instr_with_breakpoint_check(k) ==
    LET s == step_over_breakpoint(k)
    IN  IF s.ret = "blocked" THEN s.k
        ELSE IF s.ret = "false" THEN single_step_instr(s.k)
        ELSE Stopped(s.k, s.ret)

\* The while loop of step_in, from its condition.
step_in_loop(k) ==
    IF ~Alive(k) THEN Fail(k)
    ELSE IF get_line_entry(k) = k.sle
         THEN single_step_instr_with_breakpoint_check(k)
         ELSE Prompt(k)

step_in(k) ==
    IF ~Alive(k) THEN Fail(k)
    ELSE step_in_loop([k EXCEPT !.sle = get_line_entry(k)])

\* A variant that takes the word at rbp, the saved frame pointer, for the
\* return address.
step_out_at_fp(k) ==
    IF ~Alive(k) THEN Fail(k)
    ELSE LET fp == get_reg_value(k.regs, "Rbp")
         IN  IF ~CanPeek(k.mem, fp) THEN Fail(k)
             ELSE LET ret_addr == ValOf(PeekData(k.mem, fp))
                      t == set_temp_breakpoint_at(k, ret_addr)
                  IN  IF t.res # "ok" THEN Stopped(t.k, t.res)
                      ELSE continue_execution(
                               [t.k EXCEPT !.addrs = << <<ret_addr, t.la>> >>])

step_out(k) ==
    IF ~Alive(k) THEN Fail(k)
    ELSE LET fp == get_reg_value(k.regs, "Rbp")
         IN  IF ~CanPeek(k.mem, fp + 8) THEN Fail(k)
             ELSE LET ret_addr == ValOf(PeekData(k.mem, fp + 8))
                      t == set_temp_breakpoint_at(k, ret_addr)
                  IN  IF t.res # "ok" THEN Stopped(t.k, t.res)
                      ELSE continue_execution(
                               [t.k EXCEPT !.addrs = << <<ret_addr, t.la>> >>])

\* The runtime addresses of the lines lo..hi of the line map, but line cur.
RECURSIVE LineTargets(_, _, _)
LineTargets(lo, hi, cur) ==
    IF lo > hi THEN <<>>
    ELSE (IF lo # cur /\ lo \in DOMAIN get_lines_for_unit
          THEN <<add_load_addr(get_lines_for_unit[lo])>> ELSE <<>>)
         \o LineTargets(lo + 1, hi, cur)

\* The collect of step_over: set_temp_breakpoint_at on each target, stopping
\* at the first error.
RECURSIVE set_temp_all(_, _, _)
set_temp_all(k, targets, acc) ==
    IF targets = <<>> THEN [res |-> "ok", k |-> k, addrs |-> acc]
    ELSE LET t == set_temp_breakpoint_at(k, targets[1])
         IN  IF t.res # "ok" THEN [res |-> t.res, k |-> t.k, addrs |-> acc]
             ELSE set_temp_all(t.k, Tail(targets), Append(acc, <<targets[1], t.la>>))

\* step_over once the subprogram at rip is known.
step_over_known(k) ==
    LET func_range == get_die_addr_range(Subprograms[get_func(k)[1]])
        func_start_line == get_line_entry_from_pc(func_range.start)
        func_end_line == get_line_entry_from_pc(func_range.end)
        start_line == get_line_entry(k)
    IN  IF func_start_line = None \/ func_end_line = None \/ start_line = None
        THEN Fail(k)
        ELSE LET t == set_temp_all(k, LineTargets(func_start_line[1].line,
                                                   func_end_line[1].line,
                                                   start_line[1].line), <<>>)
                 fp == get_reg_value(t.k.regs, "Rbp")
             IN  IF t.res # "ok" THEN Stopped(t.k, t.res)
                 ELSE IF ~CanPeek(t.k.mem, fp + 8) THEN Fail(t.k)
                 ELSE LET ret_addr == ValOf(PeekData(t.k.mem, fp + 8))
                          r == set_temp_breakpoint_at(t.k, ret_addr)
                      IN  IF r.res # "ok" THEN Stopped(r.k, r.res)
                          ELSE continue_execution(
                              [r.k EXCEPT !.addrs = Append(t.addrs, <<ret_addr, r.la>>)])

\* A variant that resumes the tracee when rip is in no known subprogram.
step_over_resuming(k) ==
    IF ~Alive(k) THEN Fail(k)
    ELSE IF get_func(k) = None THEN continue_execution(k)
    ELSE step_over_known(k)

step_over(k) ==
    IF ~Alive(k) \/ get_func(k) = None THEN Fail(k)
    ELSE step_over_known(k)

(***************************************************************************)
(* The REPL session: Debugger::new, then Debugger::run.                    *)
(***************************************************************************)
\* The file-relative addresses the user gives to `break`; the last is mapped
\* nowhere in the tracee.
BreakAddrs == {4, 10, 200}

\* No operation has been called directly.
NoCall == [op |-> "none"]

Init ==
    /\ start_load_addr \in LoadBases
    /\ mem = InitMem(start_load_addr)
    /\ regs = InitRegs(start_load_addr)
    /\ tstate = "trapped"
    /\ siginfo = [si_signo |-> "SIGTRAP", si_code |-> 0]
    /\ breakpoints = <<>>
    /\ pc = "init_wait"
    /\ cmd = "none"
    /\ sob_addr = 0
    /\ start_line_entry = None
    /\ addrs = <<>>
    /\ result = "none"
    /\ pre_bps = <<>>
    /\ hit = None
    /\ prev_hit = None
    /\ ran = None
    /\ call = NoCall
    /\ prev_call = NoCall

Apply(k) ==
    /\ mem' = k.mem
    /\ regs' = k.regs
    /\ tstate' = k.tstate
    /\ breakpoints' = k.bps
    /\ pc' = k.pc
    /\ sob_addr' = k.sob_addr
    /\ start_line_entry' = k.sle
    /\ addrs' = k.addrs
    /\ result' = k.result

\* A command read at the prompt.
Begin(c) ==
    /\ pc = "prompt"
    /\ cmd' = c
    /\ pre_bps' = IF c \in {"next", "finish"} THEN breakpoints ELSE <<>>
    /\ UNCHANGED <<start_load_addr, siginfo, hit, prev_hit, ran, call, prev_call>>

\* The return of a waitpid the debugger was blocked in.
Resume(at) ==
    /\ pc = at
    /\ tstate \in {"trapped", "exited", "signaled"}
    /\ UNCHANGED <<start_load_addr, siginfo, cmd, pre_bps, hit, prev_hit, ran,
                   call, prev_call>>

\* run: the wait_for_signal before the loop.
InitialWait ==
    /\ Resume("init_wait")
    /\ LET w == wait_for_signal(Cur, siginfo)
       IN  Apply(IF w.ret = "err" THEN Fail(w.k)
                 ELSE IF w.ret = "true" THEN Finished(w.k) ELSE Prompt(w.k))

CmdBreak ==
    \E a \in BreakAddrs :
        /\ Begin("break")
        /\ LET s == set_breakpoint_at(AtPrompt, add_load_addr(a))
           IN  Apply(IF s.res = "ok" THEN Prompt(s.k) ELSE Stopped(s.k, s.res))

CmdContinue == Begin("continue") /\ Apply(continue_execution(AtPrompt))

CmdStepi == Begin("stepi") /\ Apply(single_step_instr_with_breakpoint_check(AtPrompt))

CmdStep == Begin("step") /\ Apply(step_in(AtPrompt))

CmdNext == Begin("next") /\ Apply(step_over(AtPrompt))

CmdFinish == Begin("finish") /\ Apply(step_out(AtPrompt))

\* The single step of step_over_breakpoint has stopped the tracee (or ended it).
AfterStepOverBreakpoint ==
    /\ Resume("sob_wait")
    /\ LET s == step_over_breakpoint_resume(Cur, siginfo)
       IN  Apply(IF s.ret # "true" THEN Stopped(s.k, s.ret)
                 ELSE IF cmd = "stepi" THEN Prompt(s.k)
                 ELSE IF cmd = "step" THEN step_in_loop(s.k)
                 ELSE ptrace_cont(s.k))

\* The single step of single_step_instr has stopped the tracee (or ended it).
AfterSingleStep ==
    /\ Resume("ss_wait")
    /\ LET w == wait_for_signal(Cur, siginfo)
       IN  Apply(IF w.ret = "err" THEN Fail(w.k)
                 ELSE IF cmd = "stepi" THEN Prompt(w.k)
                 ELSE step_in_loop(w.k))

\* The wait_for_signal of continue_execution has returned.
AfterContinue ==
    /\ Resume("cont_wait")
    /\ LET w == wait_for_signal(Cur, siginfo)
       IN  Apply(IF w.ret = "err" THEN Fail(w.k)
                 ELSE IF cmd = "continue"
                      THEN (IF w.ret = "true" THEN Finished(w.k) ELSE Prompt(w.k))
                 ELSE reverse_all(w.k, addrs))

(***************************************************************************)
(* The tracee, resumed by PTRACE_CONT or PTRACE_SINGLESTEP.                *)
(***************************************************************************)
TraceeExec ==
    /\ tstate \in {"running", "stepping"}
    /\ \E o \in Exec(start_load_addr, mem, regs) :
       \E rep \in Reports(o.ev, tstate, siginfo) :
        /\ mem' = o.mem
        /\ regs' = o.regs
        /\ tstate' = rep.tstate
        /\ siginfo' = rep.siginfo
        /\ ran' = IF o.ev \in {"ok", "exit"} THEN Some(regs.rip) ELSE None
        /\ hit' = IF o.ev = "int3" THEN Some(regs.rip) ELSE hit
        /\ prev_hit' = IF o.ev = "int3" THEN hit ELSE prev_hit
    /\ UNCHANGED <<start_load_addr, breakpoints, pc, cmd, sob_addr,
                   start_line_entry, addrs, result, pre_bps, call, prev_call>>

\* SIGKILL from outside ends the tracee whatever the debugger wants.
TraceeKilled ==
    /\ tstate \in {"running", "stepping"}
    /\ tstate' = "signaled"
    /\ UNCHANGED <<start_load_addr, mem, regs, siginfo, breakpoints, pc, cmd,
                   sob_addr, start_line_entry, addrs, result, pre_bps, hit,
                   prev_hit, ran, call, prev_call>>

\* A signal sent from outside (kill -SEGV; its code is SI_USER, 0) stops the
\* resumed tracee where it is.
TraceeSignalStop ==
    /\ tstate \in {"running", "stepping"}
    /\ tstate' = "trapped"
    /\ siginfo' = [si_signo |-> "SIGSEGV", si_code |-> 0]
    /\ ran' = None
    /\ UNCHANGED <<start_load_addr, mem, regs, breakpoints, pc, cmd, sob_addr,
                   start_line_entry, addrs, result, pre_bps, hit, prev_hit,
                   call, prev_call>>

Next ==
    \/ InitialWait
    \/ CmdBreak
    \/ CmdContinue
    \/ CmdStepi
    \/ CmdStep
    \/ CmdNext
    \/ CmdFinish
    \/ AfterStepOverBreakpoint
    \/ AfterSingleStep
    \/ AfterContinue
    \/ TraceeExec
    \/ TraceeKilled
    \/ TraceeSignalStop

Spec == Init /\ [][Next]_vars

(***************************************************************************)
(* The operations of Breakpoint and of the registry called directly, in   *)
(* any order, on a tracee that is stopped: every state of a Breakpoint    *)
(* (new, enabled, disabled) and of a registry entry (absent, disabled,    *)
(* enabled) is met, also the ones a REPL session does not leave behind.   *)
(* Each call records its input (mem0, bps0) and its result.               *)
(***************************************************************************)
\* The addresses called on: two whose words overlap, and one mapped nowhere.
UnitAddrs == {start_load_addr + a : a \in {4, 5, 200}}

UnitInit ==
    /\ start_load_addr \in LoadBases
    /\ mem = InitMem(start_load_addr)
    /\ regs = InitRegs(start_load_addr)
    /\ tstate = "stopped"
    /\ siginfo = [si_signo |-> "SIGTRAP", si_code |-> 0]
    /\ breakpoints = <<>>
    /\ pc = "unit"
    /\ cmd = "none"
    /\ sob_addr = 0
    /\ start_line_entry = None
    /\ addrs = <<>>
    /\ result = "none"
    /\ pre_bps = <<>>
    /\ hit = None
    /\ prev_hit = None
    /\ ran = None
    /\ call = NoCall
    /\ prev_call = NoCall

\* A call of operation op at address a that returned res (and la); a panic
\* ends the process.
Called(op, a, res, la, m, b) ==
    /\ pc = "unit"
    /\ call' = [op |-> op, addr |-> a, res |-> res, la |-> la,
                mem0 |-> mem, bps0 |-> breakpoints]
    /\ prev_call' = call
    /\ mem' = m
    /\ breakpoints' = b
    /\ pc' = IF res = "panic" THEN "done" ELSE pc
    /\ result' = IF res = "panic" THEN "panic" ELSE result
    /\ UNCHANGED <<start_load_addr, regs, tstate, siginfo, cmd, sob_addr,
                   start_line_entry, addrs, pre_bps, hit, prev_hit, ran>>

\* Breakpoint::new, the object kept at its address.
UnitNew ==
    \E a \in UnitAddrs \ DOMAIN breakpoints :
        Called("new", a, "ok", "Nothing", mem, Insert(breakpoints, a, Breakpoint_new(a)))

UnitEnable ==
    \E a \in DOMAIN breakpoints :
        LET e == Enable(mem, Alive(Cur), breakpoints[a])
        IN  Called("enable", a, e.res, "Nothing", e.mem, [breakpoints EXCEPT ![a] = e.bp])

UnitDisable ==
    \E a \in DOMAIN breakpoints :
        LET d == Disable(mem, Alive(Cur), breakpoints[a])
        IN  Called("disable", a, d.res, "Nothing", d.mem, [breakpoints EXCEPT ![a] = d.bp])

UnitSetBreakpoint ==
    \E a \in UnitAddrs :
        LET s == set_breakpoint_at(Cur, a)
        IN  Called("set_breakpoint_at", a, s.res, "Nothing", s.k.mem, s.k.bps)

UnitSetTemp ==
    \E a \in UnitAddrs :
        LET t == set_temp_breakpoint_at(Cur, a)
        IN  Called("set_temp_breakpoint_at", a, t.res, t.la, t.k.mem, t.k.bps)

\* reverse_breakpoint with the action the set_temp_breakpoint_at before it returned.
UnitReverse ==
    /\ call.op = "set_temp_breakpoint_at"
    /\ call.res = "ok"
    /\ LET r == reverse_breakpoint(Cur, call.addr, call.la)
       IN  Called("reverse_breakpoint", call.addr, r.res, call.la, r.k.mem, r.k.bps)

UnitNext ==
    \/ UnitNew
    \/ UnitEnable
    \/ UnitDisable
    \/ UnitSetBreakpoint
    \/ UnitSetTemp
    \/ UnitReverse

UnitSpec == UnitInit /\ [][UnitNext]_vars

(***************************************************************************)
(* util.rs: parse_hex.  A token is the sequence of its characters.        *)
(***************************************************************************)
DigitChars == <<"0", "1", "2", "3", "4", "5", "6", "7", "8", "9",
                "a", "b", "c", "d", "e", "f">>
UpperDigitChars == <<"A", "B", "C", "D", "E", "F">>

\* char::to_digit(16)
to_digit(c) ==
    IF \E i \in DOMAIN DigitChars : DigitChars[i] = c
    THEN Some((CHOOSE i \in DOMAIN DigitChars : DigitChars[i] = c) - 1)
    ELSE IF \E i \in DOMAIN UpperDigitChars : UpperDigitChars[i] = c
    THEN Some((CHOOSE i \in DOMAIN UpperDigitChars : UpperDigitChars[i] = c) + 9)
    ELSE None

RECURSIVE DigitsValue(_, _)
DigitsValue(digits, acc) ==
    IF digits = <<>> THEN acc
    ELSE DigitsValue(Tail(digits), 16 * acc + to_digit(Head(digits))[1])

\* u64::from_str_radix(src, 16): empty input and a lone sign are errors, a
\* leading "+" is accepted, every other character must be a digit.  (The
\* tokens of the model are too short to overflow a u64.)
from_str_radix(src) ==
    IF src = <<>> THEN [res |-> "err", val |-> 0]
    ELSE IF Len(src) = 1 /\ src[1] \in {"+", "-"} THEN [res |-> "err", val |-> 0]
    ELSE LET digits == IF src[1] = "+" THEN Tail(src) ELSE src
         IN  IF \E i \in DOMAIN digits : to_digit(digits[i]) = None
             THEN [res |-> "err", val |-> 0]
             ELSE [res |-> "ok", val |-> DigitsValue(digits, 0)]

\* parse_hex: &val[..2] panics on a token of fewer than two bytes.
parse_hex(val) ==
    IF Len(val) < 2 THEN [res |-> "panic", val |-> 0]
    ELSE IF SubSeq(val, 1, 2) # <<"0", "x">> THEN [res |-> "err", val |-> 0]
    ELSE from_str_radix(SubSeq(val, 3, Len(val)))

(***************************************************************************)
(* debugger.rs: the commands of run that do not resume the tracee.  A     *)
(* line is the sequence split(' ') yields: words as strings, hexadecimal  *)
(* arguments as tokens.                                                    *)
(***************************************************************************)
\* split.next() for the i-th item.
Item(split, i) == IF i <= Len(split) THEN Some(split[i]) ELSE None

\* The outcome of a command: the debugger after it and what it printed.
Outcome(k, out) == [k |-> k, out |-> out]
Returned(k, res) == Outcome(IF res = "ok" THEN Prompt(k) ELSE Stopped(k, res), None)

\* Tracee::read_mem and Tracee::write_mem.
read_mem(k, addr) ==
    IF Alive(k) /\ CanPeek(k.mem, addr)
    THEN [res |-> "ok", val |-> ValOf(PeekData(k.mem, addr))]
    ELSE [res |-> "err", val |-> 0]

write_mem(k, addr, val) ==
    IF Alive(k) /\ CanPeek(k.mem, addr)
    THEN [res |-> "ok", k |-> [k EXCEPT !.mem = PokeData(k.mem, addr, WordOf(val))]]
    ELSE [res |-> "err", k |-> k]

\* "b" | "break"
run_break(k, split) ==
    IF Item(split, 2) = None THEN Returned(k, "err")
    ELSE LET addr == parse_hex(split[2])
         IN  IF addr.res # "ok" THEN Returned(k, addr.res)
             ELSE LET s == set_breakpoint_at(k, add_load_addr(addr.val))
                  IN  Returned(s.k, s.res)

\* "r" | "reg" | "registers"
run_registers(k, split) ==
    IF Item(split, 2) = None THEN Returned(k, "err")
    ELSE LET sc == split[2]
         IN
         IF sc \in {"d", "dump"}
         THEN Returned(k, IF Alive(k) THEN "ok" ELSE "err")
         ELSE IF sc \in {"r", "read", "w", "write"}
         THEN IF Item(split, 3) = None THEN Returned(k, "err")
              ELSE LET reg == get_reg_from_string(split[3])
                   IN
                   IF reg = None THEN Returned(k, "err")
                   ELSE IF sc \in {"r", "read"}
                   THEN IF Alive(k)
                        THEN Outcome(Prompt(k), Some(get_reg_value(k.regs, reg[1])))
                        ELSE Returned(k, "err")
                   ELSE IF Item(split, 4) = None THEN Returned(k, "err")
                   ELSE LET value == parse_hex(split[4])
                        IN  IF value.res # "ok" THEN Returned(k, value.res)
                            ELSE IF ~Alive(k) THEN Returned(k, "err")
                            ELSE Returned([k EXCEPT !.regs =
                                     set_reg_value(k.regs, reg[1], value.val)], "ok")
         ELSE Returned(k, "err")

\* "m" | "mem" | "memory"
run_memory(k, split) ==
    IF Item(split, 2) = None \/ Item(split, 3) = None THEN Returned(k, "err")
    ELSE LET sc == split[2]
             addr == parse_hex(split[3])
         IN
         IF addr.res # "ok" THEN Returned(k, addr.res)
         ELSE IF sc \in {"r", "read"}
         THEN LET val == read_mem(k, addr.val)
              IN  IF val.res = "ok" THEN Outcome(Prompt(k), Some(val.val))
                  ELSE Returned(k, "err")
         ELSE IF sc \in {"w", "write"}
         THEN IF Item(split, 4) = None THEN Returned(k, "err")
              ELSE LET val == parse_hex(split[4])
                   IN  IF val.res # "ok" THEN Returned(k, val.res)
                       ELSE LET w == write_mem(k, addr.val, val.val)
                            IN  Returned(w.k, w.res)
         ELSE Returned(k, "err")

\* cmd => return Err(anyhow!("Empty / Unknown command: {}", cmd))
run_unknown(k, split) == Returned(k, "err")

(***************************************************************************)
(* The REPL at a stop of the tracee, reading lines that do not resume it. *)
(***************************************************************************)
Hex4 == <<"0", "x", "4">>
Hex5 == <<"0", "x", "5">>
Hex24 == <<"0", "x", "2", "4">>
Hex40 == <<"0", "x", "4", "0">>
HexC8 == <<"0", "x", "c", "8">>

\* Tokens that are no hexadecimal number with a 0x prefix.
BadHexTokens ==
    {<<>>, <<"4">>, <<"1", "2">>, <<"0", "x">>, <<"0", "x", "g">>, <<"0", "X", "4">>}

\* The names get_reg_from_string knows, in the order of enum Register.
RegisterNames ==
    <<"rax", "rbx", "rcx", "rdx", "rdi", "rsi", "rbp", "rsp",
      "r8", "r9", "r10", "r11", "r12", "r13", "r14", "r15",
      "rip", "rflags", "cs", "orig_rax", "fs_base", "gs_base",
      "fs", "gs", "ss", "ds", "es">>

RegNames == {RegisterNames[i] : i \in DOMAIN RegisterNames}

BreakLines == {<<"b">>} \cup {<<"b", t>> : t \in {Hex4, HexC8} \cup BadHexTokens}

RegLines ==
    {<<"r">>, <<"r", "x">>, <<"r", "d">>, <<"r", "r">>, <<"r", "w">>,
     <<"r", "r", "foo">>, <<"r", "w", "foo", Hex5>>}
    \cup {<<"r", "r", n>> : n \in RegNames}
    \cup {<<"r", "w", n>> : n \in RegNames}
    \cup {<<"r", "w", n, Hex5>> : n \in RegNames}
    \cup {<<"r", "w", n, Hex24>> : n \in {"rax", "fs"}}
    \cup {<<"r", "w", "rax", t>> : t \in BadHexTokens}

MemLines ==
    {<<"m">>, <<"m", "r">>, <<"m", "x", Hex4>>, <<"m", "w", Hex40>>}
    \cup {<<"m", "r", t>> : t \in {Hex4, Hex24, Hex40, HexC8} \cup BadHexTokens}
    \cup {<<"m", "w", t, Hex5>> : t \in {Hex4, Hex24, Hex40, HexC8}}
    \cup {<<"m", "w", Hex40, t>> : t \in BadHexTokens}

UnknownLines == {<<"">>, <<"frobnicate">>, <<"quit">>}

\* The number of registers the user may have changed at any one time.
MaxRegWrites == 1

ChangedRegs(r) == {f \in DOMAIN r : r[f] # InitRegs(start_load_addr)[f]}

LineInit ==
    /\ start_load_addr \in LoadBases
    /\ mem = InitMem(start_load_addr)
    /\ regs = InitRegs(start_load_addr)
    /\ tstate = "stopped"
    /\ siginfo = [si_signo |-> "SIGTRAP", si_code |-> 0]
    /\ breakpoints = <<>>
    /\ pc = "prompt"
    /\ cmd = "none"
    /\ sob_addr = 0
    /\ start_line_entry = None
    /\ addrs = <<>>
    /\ result = "none"
    /\ pre_bps = <<>>
    /\ hit = None
    /\ prev_hit = None
    /\ ran = None
    /\ call = NoCall
    /\ prev_call = NoCall

\* A line read at the prompt and handled; call keeps the line and what was
\* printed.
LineDone(split, o) ==
    /\ pc = "prompt"
    /\ Cardinality(ChangedRegs(o.k.regs)) <= MaxRegWrites
    /\ Apply(o.k)
    /\ cmd' = split[1]
    /\ call' = [op |-> "line", line |-> split, out |-> o.out]
    /\ UNCHANGED <<start_load_addr, siginfo, pre_bps, hit, prev_hit, ran, prev_call>>

LineBreak == \E split \in BreakLines : LineDone(split, run_break(AtPrompt, split))

LineRegisters ==
    \E split \in RegLines :
        /\ Len(split) = 4 => split[3] \in {"rax", "foo"}
        /\ LineDone(split, run_registers(AtPrompt, split))

LineMemory == \E split \in MemLines : LineDone(split, run_memory(AtPrompt, split))

LineUnknown == \E split \in UnknownLines : LineDone(split, run_unknown(AtPrompt, split))

LineNext ==
    \/ LineBreak
    \/ LineRegisters
    \/ LineMemory
    \/ LineUnknown

LineSpec == LineInit /\ [][LineNext]_vars

\* The same REPL reading register commands only, every register written.
RegCommand == \E split \in RegLines : LineDone(split, run_registers(AtPrompt, split))

RegSpec == LineInit /\ [][RegCommand]_vars

(***************************************************************************)
(* The properties checked.                                                 *)
(***************************************************************************)
\* The byte the tracee's own code has at address a.
OrigByte(a) == InitMem(start_load_addr)[a]

\* The byte at a is an INT3 that the debugger wrote there.
Planted(a) == mem[a] = INT3 /\ OrigByte(a) # INT3

EnabledAt(a) == a \in DOMAIN breakpoints /\ is_enabled(breakpoints[a])

\* Between a PTRACE_CONT / PTRACE_SINGLESTEP and the next stop.
Running == tstate \in {"running", "stepping"}

\* The last stop of the tracee is the trap of an INT3.
BreakpointStop ==
    /\ tstate = "stopped"
    /\ siginfo.si_signo = "SIGTRAP"
    /\ siginfo.si_code \in {TRAP_BRKPT, SI_KERNEL}

\* C1: whenever the tracee is running, an address has an enabled registry
\* entry if and only if its byte is an INT3 planted by the debugger.
C1_RegistryMatchesMemoryWhileRunning ==
    Running => \A a \in DOMAIN mem : EnabledAt(a) <=> Planted(a)

\* A step_over or step_out has returned Ok and the REPL prompts again.
StepReturned == pc = "prompt" /\ cmd \in {"next", "finish"}

\* C2: when step_over or step_out returns successfully, the registry (keys,
\* enabled flags, saved bytes) equals the registry at the start of the command.
C2_StepRestoresRegistry == StepReturned => breakpoints = pre_bps

\* A step_over has returned with the tracee stopped at one of its transient
\* breakpoints, now deleted, while the user's breakpoints are still there.
C2_Witness ==
    /\ StepReturned
    /\ cmd = "next"
    /\ BreakpointStop
    /\ hit[1] \notin DOMAIN breakpoints
    /\ breakpoints # <<>>
    /\ breakpoints = pre_bps

\* C3: when step_over or step_out fails, the registry is as it was when the
\* command began and no INT3 of a transient breakpoint is left in the tracee.
C3_FailedStepReversesTransients ==
    (pc = "done" /\ result = "err" /\ cmd \in {"next", "finish"})
        => /\ breakpoints = pre_bps
           /\ \A a \in DOMAIN mem : Planted(a) => a \in DOMAIN pre_bps

\* C4: the single step of step_over_breakpoint executes the original
\* instruction at the breakpoint and nothing else, after which the entry is
\* enabled and its byte is INT3 again; a step that finds no enabled
\* breakpoint at rip changes neither registry nor memory; and the tracee
\* never traps twice at one address without an instruction executed between.
C4_StepOverBreakpointProgress ==
    [][/\ (pc = "sob_wait" /\ pc' # "sob_wait" /\ tstate = "trapped")
            => /\ ran = Some(sob_addr)
               /\ result' = "none"
               /\ sob_addr \in DOMAIN breakpoints'
               /\ is_enabled(breakpoints'[sob_addr])
               /\ mem'[sob_addr] = INT3
       /\ (pc = "prompt" /\ pc' = "ss_wait")
            => /\ ~EnabledAt(regs.rip)
               /\ mem' = mem
               /\ breakpoints' = breakpoints
       /\ (Running /\ tstate' = "trapped" /\ mem[regs.rip] = INT3 /\ hit = Some(regs.rip))
            => ran # None]_vars

\* C5: when a command returns with the tracee stopped by a breakpoint trap
\* at address a, rip is a.
C5_RewoundOnce == (pc = "prompt" /\ BreakpointStop) => regs.rip = hit[1]

\* The second of two hits in a row of one properly armed breakpoint.
C5_Witness ==
    /\ pc = "prompt"
    /\ cmd = "continue"
    /\ BreakpointStop
    /\ prev_hit = hit
    /\ regs.rip = hit[1]
    /\ EnabledAt(hit[1])
    /\ breakpoints[hit[1]].inst_data = Some(OrigByte(hit[1]))

\* C6: a step_in that began at a known line entry ends with the tracee
\* stopped at another line entry or at none, or with the tracee exited, and
\* not with an error (a tracee killed from outside apart).
C6_StepInOutcome ==
    (cmd = "step" /\ pc \in {"prompt", "done"} /\ start_line_entry # None
        /\ tstate # "killed")
        => /\ result \in {"none", "ok"}
           /\ tstate = "gone" \/ get_line_entry(Cur) # start_line_entry

\* C7: the saved byte of every enabled registry entry is the byte the
\* tracee's code has at that address (never an INT3 of an earlier arming).
C7_SavedByteIsOriginal ==
    \A a \in DOMAIN breakpoints :
        is_enabled(breakpoints[a]) => breakpoints[a].inst_data = Some(OrigByte(a))

(***************************************************************************)
(* Claims about the breakpoint object and the registry, under UnitSpec.   *)
(***************************************************************************)

\* The last call was op, on a mapped address.
LastCall(op) == call.op = op /\ CanPeek(call.mem0, call.addr)

\* C8: enable on an enabled breakpoint, and disable on a disabled one (never
\* armed, or armed and disabled since), succeed and change neither the
\* breakpoint nor the tracee's memory.
C8_EnableDisableIdempotent ==
    /\ (LastCall("enable") /\ call.bps0[call.addr].enabled)
         => call.res = "ok" /\ breakpoints = call.bps0 /\ mem = call.mem0
    /\ (LastCall("disable") /\ ~call.bps0[call.addr].enabled)
         => call.res = "ok" /\ breakpoints = call.bps0 /\ mem = call.mem0

\* C9: after enable, the tracee's memory is what it was with INT3 in the byte
\* at the breakpoint's address (the other seven bytes of the word as before);
\* after the disable that follows, it is what it was before the enable.
C9_EnableDisableRestoresWord ==
    /\ (LastCall("enable") /\ call.res = "ok")
         => mem = [call.mem0 EXCEPT ![call.addr] = INT3]
    /\ (LastCall("disable") /\ call.res = "ok" /\ prev_call.op = "enable"
            /\ prev_call.res = "ok" /\ prev_call.addr = call.addr)
         => mem = prev_call.mem0

\* enable then disable of a breakpoint whose word holds the INT3 of another
\* breakpoint, one byte further on.
C9_Witness ==
    /\ LastCall("disable")
    /\ call.res = "ok"
    /\ prev_call.op = "enable"
    /\ prev_call.res = "ok"
    /\ prev_call.addr = call.addr
    /\ call.mem0[call.addr] = INT3
    /\ mem[call.addr] = OrigByte(call.addr)
    /\ mem[call.addr + 1] = INT3
    /\ mem = prev_call.mem0

\* The breakpoint an arming at address a leaves, in memory m0.
Armed(a, m0) == [inst_addr |-> a, inst_data |-> Some(m0[a]), enabled |-> TRUE]

\* C10: a successful set_temp_breakpoint_at(a) with no entry at a inserts an
\* enabled breakpoint and returns Delete; with a disabled entry it enables the
\* entry and returns Disable; with an enabled entry it changes nothing and
\* returns Nothing; the entry at a is enabled afterwards.
C10_SetTempByPriorState ==
    (call.op = "set_temp_breakpoint_at" /\ call.res = "ok") =>
        LET a == call.addr
            patched == [call.mem0 EXCEPT ![a] = INT3]
        IN  /\ EnabledAt(a)
            /\ a \notin DOMAIN call.bps0
                 => /\ call.la = "Delete"
                    /\ breakpoints = Insert(call.bps0, a, Armed(a, call.mem0))
                    /\ mem = patched
            /\ (a \in DOMAIN call.bps0 /\ ~call.bps0[a].enabled)
                 => /\ call.la = "Disable"
                    /\ breakpoints = [call.bps0 EXCEPT ![a] = Armed(a, call.mem0)]
                    /\ mem = patched
            /\ (a \in DOMAIN call.bps0 /\ call.bps0[a].enabled)
                 => /\ call.la = "Nothing"
                    /\ breakpoints = call.bps0
                    /\ mem = call.mem0

\* A disabled entry enabled in place, another breakpoint in the registry.
C10_Witness ==
    /\ call.op = "set_temp_breakpoint_at"
    /\ call.res = "ok"
    /\ call.la = "Disable"
    /\ call.addr \in DOMAIN call.bps0
    /\ ~call.bps0[call.addr].enabled
    /\ EnabledAt(call.addr)
    /\ mem[call.addr] = INT3
    /\ DOMAIN breakpoints # {call.addr}

\* The last two calls were set_temp_breakpoint_at(a) and reverse_breakpoint(a,
\* action) with the action the first returned, and both succeeded.
SetThenReversed ==
    /\ call.op = "reverse_breakpoint"
    /\ call.res = "ok"
    /\ prev_call.op = "set_temp_breakpoint_at"
    /\ prev_call.res = "ok"
    /\ prev_call.addr = call.addr
    /\ prev_call.la = call.la

\* C11: set_temp_breakpoint_at(a) followed by reverse_breakpoint(a, action)
\* with the returned action leaves the registry, and the tracee byte at a, as
\* they were before the pair, whatever the registry held at a.
C11_SetTempReverseIdentity ==
    SetThenReversed
        => /\ breakpoints = prev_call.bps0
           /\ mem[call.addr] = prev_call.mem0[call.addr]

\* The pair on an address with no entry: inserted, then deleted again, the
\* original byte back, beside another breakpoint that stays armed.
C11_Witness ==
    /\ SetThenReversed
    /\ call.la = "Delete"
    /\ call.addr \notin DOMAIN breakpoints
    /\ call.mem0[call.addr] = INT3
    /\ mem[call.addr] = OrigByte(call.addr)
    /\ \E b \in DOMAIN breakpoints : is_enabled(breakpoints[b])

(***************************************************************************)
(* Claims about waiting, tracee exit and the REPL loop, under Spec.       *)
(***************************************************************************)

\* The waitpid of the wait before the loop, or of a `continue`, returns in
\* this step: run acts on the value of wait_for_signal alone (true: Ok(()),
\* false: the next prompt, an error: Err).
WaitReturns ==
    /\ \/ pc = "init_wait"
       \/ pc = "cont_wait" /\ cmd = "continue"
    /\ pc' # pc

\* C12: wait_for_signal returns true when the tracee is gone, by exit or by
\* a signal, and false, without error, when the tracee has stopped.
C12_WaitForSignalTrueIffGone ==
    [][WaitReturns =>
         IF tstate \in {"exited", "signaled"}
         THEN pc' = "done" /\ result' = "ok"
         ELSE pc' = "prompt" /\ result' = "none"]_vars

\* C13: once a wait has found the tracee exited, run has returned Ok(()):
\* it is not at a prompt or issuing further requests against the tracee, and
\* it has not returned an error.
C13_ExitEndsRunCleanly ==
    tstate = "gone" => pc = "done" /\ result = "ok"

\* The lines of the model with a surface error: an unknown command, an
\* unknown subcommand, an unknown register, a missing argument, a token that
\* is no hexadecimal number.
SurfaceErrorLine(split) ==
    CASE split[1] = "b" -> Len(split) < 2 \/ split[2] \in BadHexTokens
      [] split[1] = "r" ->
             split \in {<<"r">>, <<"r", "x">>, <<"r", "r">>, <<"r", "w">>,
                        <<"r", "r", "foo">>, <<"r", "w", "foo", Hex5>>}
                       \cup {<<"r", "w", n>> : n \in RegNames}
                       \cup {<<"r", "w", "rax", t>> : t \in BadHexTokens}
      [] split[1] = "m" ->
             split \in {<<"m">>, <<"m", "r">>, <<"m", "x", Hex4>>, <<"m", "w", Hex40>>}
                       \cup {<<"m", "r", t>> : t \in BadHexTokens}
                       \cup {<<"m", "w", Hex40, t>> : t \in BadHexTokens}
      [] OTHER -> TRUE

\* C14: a line with a surface error leaves the tracee and the registry as they
\* were, and run goes on to the next prompt.
C14_SurfaceErrorReprompts ==
    [][(pc = "prompt" /\ call'.op = "line" /\ SurfaceErrorLine(call'.line))
          => /\ pc' = "prompt"
             /\ mem' = mem
             /\ regs' = regs
             /\ tstate' = tstate
             /\ breakpoints' = breakpoints]_vars

(***************************************************************************)
(* Claims about step_out and step_over, under Spec.                       *)
(***************************************************************************)

\* step_out resumes the tracee in this step.
StepOutStarts == pc = "prompt" /\ cmd' = "finish" /\ pc' \in {"sob_wait", "cont_wait"}

\* The wait of step_out's continue_execution returns in this step; the
\* address of the transient breakpoint is the local ret_addr.
StepOutWaitReturns == pc = "cont_wait" /\ cmd = "finish" /\ pc' # pc

\* The tracee was killed by a signal, or stopped by a signal other than a
\* trap, or by a breakpoint of the user away from address r.
StoppedElsewhere(r) ==
    \/ tstate = "signaled"
    \/ /\ tstate = "trapped"
       /\ \/ siginfo.si_signo # "SIGTRAP"
          \/ hit # None /\ hit[1] # r /\ hit[1] \in DOMAIN pre_bps

\* step_out has set its transient breakpoint at the word at rbp + 8.
TransientAtReturnAddress ==
    LET R == ValOf(PeekData(mem, regs.rbp + 8))
    IN  /\ addrs' = << <<R, addrs'[1][2]>> >>
        /\ R \in DOMAIN breakpoints'
        /\ mem'[R] = INT3

\* step_out has returned Ok with the tracee stopped at r and the registry as
\* it was before the command.
ReturnedAt(r) ==
    /\ pc' = "prompt"
    /\ tstate' = "stopped"
    /\ regs'.rip = r
    /\ breakpoints' = pre_bps

\* C15 as stated: step_out sets a transient breakpoint at the word at rbp + 8
\* and, unless another breakpoint or a signal stops the tracee first, returns
\* with the tracee stopped there and the registry as before.
C15_StepOutReachesReturnAddress ==
    [][/\ StepOutStarts => TransientAtReturnAddress
       /\ (StepOutWaitReturns /\ ~StoppedElsewhere(addrs[1][1]))
            => ReturnedAt(addrs[1][1])]_vars

\* C15, for a tracee that stops: the same, provided the tracee has not
\* exited before it reached the return address.
C15_StepOutStopsAtReturnAddress ==
    [][/\ StepOutStarts => TransientAtReturnAddress
       /\ (StepOutWaitReturns /\ tstate = "trapped" /\ ~StoppedElsewhere(addrs[1][1]))
            => ReturnedAt(addrs[1][1])]_vars

\* finish inside foo has returned at the return site in main, its transient
\* breakpoint deleted again and the user's breakpoint in foo still armed.
C15_Witness ==
    /\ pc = "prompt"
    /\ cmd = "finish"
    /\ BreakpointStop
    /\ regs.rip = hit[1]
    /\ offset_load_addr(regs.rip) \in {10, 12}
    /\ prev_hit # None
    /\ offset_load_addr(prev_hit[1]) = 4
    /\ hit[1] \notin DOMAIN breakpoints
    /\ EnabledAt(prev_hit[1])
    /\ breakpoints = pre_bps

\* step_over resumes the tracee in this step.
StepOverStarts == pc = "prompt" /\ cmd' = "next" /\ pc' \in {"sob_wait", "cont_wait"}

\* The address range of the subprogram the tracee is stopped in.
CurrentFunctionRange ==
    get_die_addr_range(Subprograms[get_function_from_pc(offset_load_addr(regs.rip))[1]])

\* C16: the transient breakpoints of step_over are at addresses of lines of
\* the current subprogram, and one more at the word at rbp + 8: none of the
\* line targets lies in another function, where the tracee, continued once,
\* would stop inside a callee.
C16_StepOverTargetsInFunction ==
    [][StepOverStarts =>
         /\ addrs'[Len(addrs')][1] = ValOf(PeekData(mem, regs.rbp + 8))
         /\ \A i \in 1..(Len(addrs') - 1) :
                RangeContains(CurrentFunctionRange, offset_load_addr(addrs'[i][1]))]_vars

\* `next` is entered while rip is in no known subprogram.
StepOverOutsideFunction ==
    /\ pc = "prompt" /\ cmd' = "next"
    /\ Alive(AtPrompt) /\ get_func(AtPrompt) = None

\* C17: `next` with rip outside every known subprogram fails and is a no-op:
\* no breakpoint is set, the registry, the tracee's memory and registers are
\* unchanged, and the tracee is not resumed.
C17_StepOverOutsideFunctionIsNoOp ==
    [][StepOverOutsideFunction =>
         /\ result' = "err"
         /\ addrs' = <<>>
         /\ breakpoints' = breakpoints
         /\ mem' = mem
         /\ regs' = regs
         /\ tstate' = tstate]_vars

C17_Witness ==
    /\ cmd = "next" /\ pc = "done" /\ result = "err"
    /\ tstate = "stopped" /\ get_func(Cur) = None
    /\ addrs = <<>>
    /\ \E a \in DOMAIN breakpoints : is_enabled(breakpoints[a]) /\ mem[a] = INT3

\* `break` has returned Ok in this step.
BreakReturns == pc = "prompt" /\ cmd' = "break" /\ pc' = "prompt"

\* `continue` returns in this step with the tracee stopped by a breakpoint trap.
ContinueHitsBreakpoint ==
    /\ pc = "cont_wait" /\ cmd = "continue" /\ pc' = "prompt"
    /\ siginfo.si_signo = "SIGTRAP"
    /\ siginfo.si_code \in {TRAP_BRKPT, SI_KERNEL}

\* The file-relative pc that get_line_entry and get_func look up.
LookupPc(r) == offset_load_addr(get_reg_value(r, "Rip"))

\* C18: the load base never changes after construction; `break A` arms the
\* breakpoint at runtime address A + load base and nowhere else; and when
\* `continue` stops at a breakpoint, the file-relative pc of the debug-info
\* lookups is the A that was given to `break`.
C18_LoadBaseBothDirections ==
    [][/\ start_load_addr' = start_load_addr
       /\ BreakReturns =>
            \E a \in BreakAddrs :
                /\ a + start_load_addr \in DOMAIN breakpoints'
                /\ is_enabled(breakpoints'[a + start_load_addr])
                /\ mem'[a + start_load_addr] = INT3
                /\ DOMAIN breakpoints' \subseteq DOMAIN breakpoints \cup {a + start_load_addr}
       /\ ContinueHitsBreakpoint =>
            /\ LookupPc(regs') \in BreakAddrs
            /\ LookupPc(regs') + start_load_addr = hit[1]
            /\ hit[1] \in DOMAIN breakpoints']_vars

\* With a nonzero load base, `break 0xa` then `continue` stops in main with
\* the lookups at file-relative 0xa, in main's line 10.
C18_Witness ==
    /\ start_load_addr # 0
    /\ pc = "prompt" /\ cmd = "continue" /\ BreakpointStop
    /\ regs.rip = 10 + start_load_addr
    /\ EnabledAt(10 + start_load_addr)
    /\ LookupPc(regs) = 10
    /\ get_func(Cur) # None /\ Subprograms[get_func(Cur)[1]].name = "main"

\* The field of the register bank that the register named n denotes.
FieldNamed(n) == IF n = "rflags" THEN "eflags" ELSE n

\* The values written, as typed and as numbers.
WriteValues == {<<Hex5, 5>>, <<Hex24, 36>>}

\* The line is `r w n t` for a register name n other than rip and a value t.
IsWrite(line) ==
    /\ Len(line) = 4 /\ line[1] = "r" /\ line[2] = "w"
    /\ line[3] \in RegNames \ {"rip"}
    /\ \E w \in WriteValues : w[1] = line[4]

\* The number that the value token of a write line stands for.
Written(line) == (CHOOSE w \in WriteValues : w[1] = line[4])[2]

\* This step runs a write line.
WriteStep == pc = "prompt" /\ call'.op = "line" /\ IsWrite(call'.line)

\* This step runs `r r n` right after a successful `r w n t`.
ReadAfterWrite ==
    /\ pc = "prompt" /\ call.op = "line" /\ IsWrite(call.line)
    /\ call'.op = "line" /\ call'.line = <<"r", "r", call.line[3]>>

\* C19: on a stopped tracee, `registers write r v` changes the field r names
\* to v and nothing else, and a `registers read r` that follows prints v, for
\* every register r other than rip.
C19_RegisterWriteThenRead ==
    [][/\ WriteStep =>
            /\ pc' = "prompt"
            /\ regs' = [regs EXCEPT ![FieldNamed(call'.line[3])] = Written(call'.line)]
            /\ mem' = mem /\ breakpoints' = breakpoints /\ tstate' = tstate
       /\ ReadAfterWrite =>
            /\ pc' = "prompt"
            /\ call'.out = Some(Written(call.line))
            /\ regs' = regs]_vars

\* fs was written with 0x24 and read back; gs and all other fields are as
\* they were.
C19_Witness ==
    /\ pc = "prompt" /\ tstate = "stopped"
    /\ call.op = "line" /\ call.line = <<"r", "r", "fs">>
    /\ call.out = Some(36)
    /\ regs = [InitRegs(start_load_addr) EXCEPT !.fs = 36]

(***************************************************************************)
(* registers.rs: the two DWARF tables, applied to every input.             *)
(***************************************************************************)
\* The largest u8.
U8Max == 255

U8 == 0..U8Max

\* get_dwarf_number_from_reg(reg) is called.
RegToDwarf ==
    \E reg \in Register :
        /\ call' = [op |-> "get_dwarf_number_from_reg", reg |-> reg,
                    out |-> get_dwarf_number_from_reg(reg)]
        /\ prev_call' = NoCall
        /\ UNCHANGED <<start_load_addr, mem, regs, tstate, siginfo, breakpoints, pc,
                       cmd, sob_addr, start_line_entry, addrs, result, pre_bps,
                       hit, prev_hit, ran>>

\* get_reg_from_dwarf_number(dwarf) is called.
DwarfToReg ==
    \E dwarf \in U8 :
        /\ call' = [op |-> "get_reg_from_dwarf_number", dwarf |-> dwarf,
                    out |-> get_reg_from_dwarf_number(dwarf)]
        /\ prev_call' = NoCall
        /\ UNCHANGED <<start_load_addr, mem, regs, tstate, siginfo, breakpoints, pc,
                       cmd, sob_addr, start_line_entry, addrs, result, pre_bps,
                       hit, prev_hit, ran>>

\* get_reg_from_dwarf_number is called with the number the last
\* get_dwarf_number_from_reg returned.
DwarfRoundTrip ==
    /\ call.op = "get_dwarf_number_from_reg"
    /\ call.out # None
    /\ call' = [op |-> "get_reg_from_dwarf_number", dwarf |-> call.out[1],
                out |-> get_reg_from_dwarf_number(call.out[1])]
    /\ prev_call' = call
    /\ UNCHANGED <<start_load_addr, mem, regs, tstate, siginfo, breakpoints, pc,
                   cmd, sob_addr, start_line_entry, addrs, result, pre_bps,
                   hit, prev_hit, ran>>

DwarfNext ==
    \/ RegToDwarf
    \/ DwarfToReg
    \/ DwarfRoundTrip

DwarfSpec == LineInit /\ [][DwarfNext]_vars

\* The DWARF register numbers of x86-64, by register.
DwarfNumbers ==
    [Rax |-> 0, Rdx |-> 1, Rcx |-> 2, Rbx |-> 3, Rsi |-> 4, Rdi |-> 5,
     Rbp |-> 6, Rsp |-> 7, R8 |-> 8, R9 |-> 9, R10 |-> 10, R11 |-> 11,
     R12 |-> 12, R13 |-> 13, R14 |-> 14, R15 |-> 15, Rflags |-> 49,
     Es |-> 50, Cs |-> 51, Ss |-> 52, Ds |-> 53, Fs |-> 54, Gs |-> 55,
     FsBase |-> 58, GsBase |-> 59]

\* C20: get_dwarf_number_from_reg gives every register other than Rip and
\* OrigRax its DWARF number and gives those two None; get_reg_from_dwarf_number
\* takes each of these numbers back to its register, so that the round trip
\* is the identity, and fails for every other u8.
C20_DwarfMappingBijection ==
    /\ call.op = "get_dwarf_number_from_reg" =>
         IF call.reg \in {"Rip", "OrigRax"} THEN call.out = None
         ELSE call.reg \in DOMAIN DwarfNumbers /\ call.out = Some(DwarfNumbers[call.reg])
    /\ call.op = "get_reg_from_dwarf_number" =>
         IF \E r \in DOMAIN DwarfNumbers : DwarfNumbers[r] = call.dwarf
         THEN call.out # None /\ DwarfNumbers[call.out[1]] = call.dwarf
         ELSE call.out = None
    /\ (call.op = "get_reg_from_dwarf_number" /\ prev_call.op = "get_dwarf_number_from_reg")
         => call.out = Some(prev_call.reg)

\* The round trip of a register whose number is far from its place in the
\* enum has been made.
C20_Witness ==
    /\ prev_call.op = "get_dwarf_number_from_reg" /\ prev_call.reg = "FsBase"
    /\ call.op = "get_reg_from_dwarf_number" /\ call.dwarf = 58
    /\ call.out = Some("FsBase")

(***************************************************************************)
(* Claims about parse_hex and the error paths.                             *)
(***************************************************************************)
\* The token that the last line handed to parse_hex first, if it is none of
\* the well-formed ones.
BadTokenParsed ==
    /\ call.op = "line"
    /\ \/ call.line[1] = "b" /\ Len(call.line) = 2 /\ call.line[2] \in BadHexTokens
       \/ call.line[1] = "m" /\ Len(call.line) >= 3 /\ call.line[3] \in BadHexTokens

\* C21: a token that is not `0x` followed by hexadecimal digits, the empty
\* token and a token of one character included, makes parse_hex return an
\* error value; the debugger does not abort.
C21_BadHexIsErrorValue == BadTokenParsed => result = "err"

\* The registry has an enabled entry exactly where the tracee's code holds an
\* INT3 of the debugger.
RegistryMatchesMemory == \A a \in DOMAIN mem : EnabledAt(a) <=> Planted(a)

\* A command that resumes the tracee returns an error in this step.
PlannerFails ==
    /\ result # "err" /\ result' = "err"
    /\ cmd' \in {"continue", "stepi", "step", "next", "finish"}

\* C22: when a command that plans breakpoints fails (an enable, a disable or
\* a reverse_breakpoint returned an error), a registry that matched the
\* tracee's memory before the failing step still matches it afterwards; in
\* particular reverse_breakpoint with Delete has not dropped an entry whose
\* INT3 is still in memory.
C22_ErrorKeepsRegistryConsistent ==
    [][(RegistryMatchesMemory /\ PlannerFails) => RegistryMatchesMemory']_vars

(***************************************************************************)
(* Claims about wait_for_signal's rewind.                                  *)
(***************************************************************************)
\* A wait_for_signal takes the stop of the tracee in this step.
WaitTakesStop == tstate = "trapped" /\ tstate' \notin {"trapped", "signaled"}

\* The stop is a SIGTRAP with the code of a breakpoint.
BreakpointTrap ==
    siginfo.si_signo = "SIGTRAP" /\ siginfo.si_code \in {TRAP_BRKPT, SI_KERNEL}

\* C23: wait_for_signal moves rip, one byte back, only for a SIGTRAP with code
\* TRAP_BRKPT or SI_KERNEL; for TRAP_TRACE, for any other code and for any
\* other signal the register bank is as the stop left it, and the call
\* returns false: run goes on to the prompt and does not end.
C23_RewindOnlyOnBreakpointTrap ==
    [][WaitTakesStop =>
         /\ IF BreakpointTrap
            THEN regs' = [regs EXCEPT !.rip = regs.rip - 1]
            ELSE regs' = regs
         /\ (pc = "init_wait" \/ (pc = "cont_wait" /\ cmd = "continue"))
                => pc' = "prompt" /\ result' = "none"]_vars

\* A single step over the instruction of a breakpoint has ended with
\* TRAP_TRACE: rip is one past the breakpoint's address and stays there.
C23_Witness ==
    /\ pc = "prompt" /\ cmd = "stepi" /\ tstate = "stopped"
    /\ siginfo.si_signo = "SIGTRAP" /\ siginfo.si_code = TRAP_TRACE
    /\ ran = Some(regs.rip - 1)
    /\ EnabledAt(regs.rip - 1) /\ mem[regs.rip - 1] = INT3

\* C24: whenever wait_for_signal rewinds rip, the address it lands on is the
\* key of an entry of the registry that is enabled at that moment.
C24_RewindLandsOnEnabledEntry ==
    [][(WaitTakesStop /\ BreakpointTrap)
          => /\ regs'.rip = regs.rip - 1
             /\ (regs.rip - 1) \in DOMAIN breakpoints
             /\ is_enabled(breakpoints[regs.rip - 1])]_vars

(***************************************************************************)
(* Claims about memory writes, repeated targets and failed arming.         *)
(***************************************************************************)
\* A `memory write` line returns Ok in this step.
MemoryWritten ==
    /\ pc = "prompt" /\ pc' = "prompt"
    /\ call'.op = "line" /\ call'.line[1] = "m"
    /\ Len(call'.line) = 4 /\ call'.line[2] = "w"

\* C25: a `memory write` leaves every enabled breakpoint armed: after the
\* write the byte at the address of each enabled entry is still 0xCC.
C25_MemoryWriteKeepsBreakpoint ==
    [][MemoryWritten =>
         \A a \in DOMAIN breakpoints' :
             is_enabled(breakpoints'[a]) => mem'[a] = INT3]_vars

(***************************************************************************)
(* debugger.rs: the two passes of step_over over its targets, the collect  *)
(* that sets the transient breakpoints and the loop that reverses them,    *)
(* called on target lists in which addresses repeat.                       *)
(***************************************************************************)
\* The target lists: one or two line addresses, then the return address.
PlanTargetSeqs ==
    {<<a, r>> : a \in UnitAddrs, r \in UnitAddrs}
    \cup {<<a, b, r>> : a \in UnitAddrs, b \in UnitAddrs, r \in UnitAddrs}

\* step_over's collect and its set_temp_breakpoint_at of the return address.
PlanTargets ==
    \E targets \in PlanTargetSeqs :
        LET t == set_temp_all(Cur, targets, <<>>)
        IN  /\ pc = "unit"
            /\ mem' = t.k.mem
            /\ breakpoints' = t.k.bps
            /\ addrs' = t.addrs
            /\ pc' = IF t.res = "ok" THEN "planned" ELSE "done"
            /\ result' = IF t.res = "ok" THEN result ELSE t.res
            /\ pre_bps' = breakpoints
            /\ call' = [op |-> "set_temp_all", targets |-> targets, res |-> t.res,
                        mem0 |-> mem, bps0 |-> breakpoints]
            /\ prev_call' = NoCall
            /\ UNCHANGED <<start_load_addr, regs, tstate, siginfo, cmd, sob_addr,
                           start_line_entry, hit, prev_hit, ran>>

\* The loop over addrs at the end of step_over.
ReversePass ==
    /\ pc = "planned"
    /\ LET r == reverse_all(Cur, addrs)
       IN  /\ mem' = r.mem
           /\ breakpoints' = r.bps
           /\ addrs' = r.addrs
           /\ pc' = r.pc
           /\ result' = r.result
    /\ call' = [op |-> "reverse_all", addrs |-> addrs]
    /\ prev_call' = call
    /\ UNCHANGED <<start_load_addr, regs, tstate, siginfo, cmd, sob_addr,
                   start_line_entry, pre_bps, hit, prev_hit, ran>>

PlanNext ==
    \/ UnitSetBreakpoint
    \/ PlanTargets
    \/ ReversePass

PlanSpec == UnitInit /\ [][PlanNext]_vars

\* An address occurs more than once in the list.
HasRepeat(targets) ==
    \E i \in DOMAIN targets : \E j \in DOMAIN targets : i # j /\ targets[i] = targets[j]

ArmingFailed == call.op = "set_breakpoint_at" /\ call.res = "err"

\* C27: when arming fails in set_breakpoint_at, the registry is as it was
\* before the call: nothing is inserted at the address, an entry that was
\* there is kept as it was, no entry has become enabled, and the tracee's
\* memory is untouched.
C27_FailedArmingLeavesRegistry ==
    ArmingFailed =>
        /\ breakpoints = call.bps0
        /\ mem = call.mem0
        /\ pc = "unit"

\* Arming has failed at the unmapped address, which has no entry, while
\* another address has an armed one.
C27_Witness ==
    /\ ArmingFailed
    /\ call.addr \notin DOMAIN mem
    /\ call.addr \notin DOMAIN breakpoints
    /\ \E a \in DOMAIN breakpoints : is_enabled(breakpoints[a]) /\ mem[a] = INT3

====
